---- MODULE Spec2Model ----
(***************************************************************************)
(* Model of recommend_games (src/app.py:10-31, src/streamlit_app.py:42-63) *)
(* and of the DataFrame `data` it is called on.                            *)
(*                                                                         *)
(* A DataFrame is a sequence of rows plus the sequence of its column       *)
(* names.  A row carries its index label (pandas keeps the label through   *)
(* boolean indexing, sort_values and head), the three columns read from    *)
(* recommend.csv and the value of the 'similarity' column, which is        *)
(* NoValue while the frame has no such column.                             *)
(*                                                                         *)
(* The 'similarity' value np.sqrt(dv**2 + dp**2) is irrational in general; *)
(* it is represented by its radicand dv^2 + dp^2.  np.sqrt is strictly     *)
(* increasing and, on the bounded naturals used here, maps distinct        *)
(* radicands to distinct binary64 values, so equality and order of the     *)
(* column are exactly those of the radicands.                              *)
(***************************************************************************)
EXTENDS Integers, Sequences, FiniteSets

VARIABLES data, columns, loaded, tieOrder, call, pc, frame

vars == <<data, columns, loaded, tieOrder, call, pc, frame>>

\* ---------------------------------------------------------------- bounds
MaxItems == 3
MaxTopN == 2

GameNames == {"a", "b"}
AbsentName == "z"
RefNames == GameNames \cup {AbsentName}
VoteValues == {0, 1}
PlaytimeValues == {0, 1}
TopNs == 1..MaxTopN
Callers == {1, 2}

\* ------------------------------------------------------------ data frames
NoValue == -1
NoCall == [kind |-> "none"]

BaseColumns == <<"game", "votes_up_count", "total_playtime">>

EmptyFrame == [columns |-> <<>>, rows |-> <<>>]

HasColumn(cols, name) == \E i \in DOMAIN cols : cols[i] = name

ItemKinds == [game : GameNames, votes_up_count : VoteValues, total_playtime : PlaytimeValues]

MkRow(i, item) ==
    [index |-> i - 1,
     game |-> item.game,
     votes_up_count |-> item.votes_up_count,
     total_playtime |-> item.total_playtime,
     similarity |-> NoValue]

Catalogs ==
    UNION { { [i \in 1..k |-> MkRow(i, f[i])] : f \in [1..k -> ItemKinds] } : k \in 0..MaxItems }

TieOrders == {"catalog", "reversed"}

\* --------------------------------------------------- pieces of the function
SelectedRows(rows, selected_game) ==
    LET Keep(r) == r.game = selected_game
    IN  SelectSeq(rows, Keep)

LastRow(sel) == sel[Len(sel)]

FirstRow(sel) == sel[1]

Similarity(r, selected_votes, selected_playtime) ==
    (r.votes_up_count - selected_votes) * (r.votes_up_count - selected_votes)
    + (r.total_playtime - selected_playtime) * (r.total_playtime - selected_playtime)

AssignSimilarityOnce(rows, cols, selected_votes, selected_playtime) ==
    IF HasColumn(cols, "similarity")
    THEN rows
    ELSE [i \in DOMAIN rows |->
            [rows[i] EXCEPT !.similarity = Similarity(rows[i], selected_votes, selected_playtime)]]

AssignSimilarity(rows, cols, selected_votes, selected_playtime) ==
    [i \in DOMAIN rows |->
        [rows[i] EXCEPT !.similarity = Similarity(rows[i], selected_votes, selected_playtime)]]

WithSimilarityColumn(cols) ==
    IF HasColumn(cols, "similarity") THEN cols ELSE Append(cols, "similarity")

ExcludingFirstMatch(rows, selected_game) ==
    LET sel == SelectedRows(rows, selected_game)
        Keep(r) == sel = <<>> \/ r.index # sel[1].index
    IN  SelectSeq(rows, Keep)

Excluding(rows, selected_game) ==
    LET Keep(r) == r.game # selected_game
    IN  SelectSeq(rows, Keep)

TieFirst(r1, r2, tie) ==
    IF tie = "catalog" THEN r1.index < r2.index ELSE r1.index > r2.index

Precedes(r1, r2, tie) ==
    \/ r1.similarity < r2.similarity
    \/ r1.similarity = r2.similarity /\ TieFirst(r1, r2, tie)

RemoveAt(rows, i) == SubSeq(rows, 1, i - 1) \o SubSeq(rows, i + 1, Len(rows))

Unsorted(rows, tie) == rows

RECURSIVE SortValues(_, _)
SortValues(rows, tie) ==
    IF rows = <<>>
    THEN <<>>
    ELSE LET i == CHOOSE i \in DOMAIN rows :
                    \A j \in DOMAIN rows : j = i \/ Precedes(rows[i], rows[j], tie)
         IN  <<rows[i]>> \o SortValues(RemoveAt(rows, i), tie)

Min(x, y) == IF x <= y THEN x ELSE y

tail(rows, top_n) == SubSeq(rows, Len(rows) - Min(top_n, Len(rows)) + 1, Len(rows))

HeadOffByOne(rows, top_n) == SubSeq(rows, 1, Min(top_n + 1, Len(rows)))

head(rows, top_n) == SubSeq(rows, 1, Min(top_n, Len(rows)))

RaisedIndexError == [columns |-> <<>>, rows |-> <<>>, raised |-> "IndexError"]

recommend_games_unguarded(selected_game, rows, cols, top_n, tie) ==
    LET sel == SelectedRows(rows, selected_game)
    IN  IF sel = <<>>
        THEN [data |-> rows, columns |-> cols, result |-> RaisedIndexError]
        ELSE LET ref == FirstRow(sel)
                 d2 == AssignSimilarity(rows, cols, ref.votes_up_count, ref.total_playtime)
                 c2 == WithSimilarityColumn(cols)
             IN  [data |-> d2, columns |-> c2,
                  result |-> [columns |-> c2,
                              rows |-> head(SortValues(Excluding(d2, selected_game), tie), top_n)]]

recommend_games(selected_game, rows, cols, top_n, tie) ==
    LET sel == SelectedRows(rows, selected_game)
    IN  IF sel = <<>>
        THEN [data |-> rows, columns |-> cols, result |-> EmptyFrame]
        ELSE LET ref == FirstRow(sel)
                 d2 == AssignSimilarity(rows, cols, ref.votes_up_count, ref.total_playtime)
                 c2 == WithSimilarityColumn(cols)
             IN  [data |-> d2, columns |-> c2,
                  result |-> [columns |-> c2,
                              rows |-> head(SortValues(Excluding(d2, selected_game), tie), top_n)]]

\* ------------------------------------------------------------------ state
\* data, columns : the DataFrame passed to recommend_games (the module-level
\*                 `data` of both scripts)
\* loaded        : the frame as pd.read_csv returned it (never written)
\* tieOrder      : how this build's sort_values(kind='quicksort') orders rows
\*                 with equal keys; pandas leaves it unspecified
\* call          : the last completed synchronous call and its return value
\* pc, frame     : position and local variables of each concurrent caller
BlankFrame ==
    [selected_game |-> AbsentName, top_n |-> 0,
     selected_votes |-> NoValue, selected_playtime |-> NoValue,
     columns |-> <<>>, recommendations |-> <<>>, result |-> EmptyFrame]

Init ==
    /\ loaded \in Catalogs
    /\ data = loaded
    /\ columns = BaseColumns
    /\ tieOrder \in TieOrders
    /\ call = NoCall
    /\ pc = [c \in Callers |-> "idle"]
    /\ frame = [c \in Callers |-> BlankFrame]

CallRecord(selected_game, top_n, out) ==
    [kind |-> "call", selected_game |-> selected_game, top_n |-> top_n,
     before |-> data, before_columns |-> columns, result |-> out.result]

\* recommend_games(selected_game, data, top_n) run to completion on the frame
\* `data` names at the time of the call.
RunCall(selected_game, top_n) ==
    LET out == recommend_games(selected_game, data, columns, top_n, tieOrder)
    IN  /\ data' = out.data
        /\ columns' = out.columns
        /\ call' = CallRecord(selected_game, top_n, out)
        /\ UNCHANGED <<loaded, tieOrder, pc, frame>>

\* ------------------------------------------------------- the scripts as written
\* Streamlit executes the script from the top on every interaction: the frame
\* is built again (app.py:7 read_csv; streamlit_app.py:20 a fresh copy out of
\* st.cache_data) and what the previous run did to its frame is dropped.
Rerun ==
    /\ data' = loaded
    /\ columns' = BaseColumns
    /\ call' = NoCall
    /\ UNCHANGED <<loaded, tieOrder, pc, frame>>

\* The button handler: one call per script run, on the frame that run loaded
\* (app.py:45-47, streamlit_app.py:112-117).
Recommend(selected_game, top_n) ==
    /\ call = NoCall
    /\ RunCall(selected_game, top_n)

Next ==
    \/ Rerun
    \/ \E g \in RefNames, n \in TopNs : Recommend(g, n)

Spec == Init /\ [][Next]_vars

\* ------------------------------------- the function under a caller that keeps
\* the frame: recommend_games takes `data` by reference, so a caller that
\* passes the same DataFrame again hands over what the earlier calls left in
\* it.  Neither script does so; this is the function's behaviour for the
\* callers the idempotence and concurrency properties speak of.
RecommendOnKeptFrame(selected_game, top_n) ==
    RunCall(selected_game, top_n)

NextKept == \E g \in RefNames, n \in TopNs : RecommendOnKeptFrame(g, n)

SpecKept == Init /\ [][NextKept]_vars

\* ---------------- two callers passing one DataFrame, statement by statement
Other(c) == CHOOSE o \in Callers : o # c

\* app.py:12-18, streamlit_app.py:46-51
Lookup(c, selected_game, top_n) ==
    /\ pc[c] = "idle"
    /\ LET sel == SelectedRows(data, selected_game)
       IN  IF sel = <<>>
           THEN /\ frame' = [frame EXCEPT ![c].selected_game = selected_game,
                                          ![c].top_n = top_n,
                                          ![c].result = EmptyFrame]
                /\ pc' = [pc EXCEPT ![c] = "done"]
           ELSE /\ frame' = [frame EXCEPT ![c].selected_game = selected_game,
                                          ![c].top_n = top_n,
                                          ![c].selected_votes = FirstRow(sel).votes_up_count,
                                          ![c].selected_playtime = FirstRow(sel).total_playtime]
                /\ pc' = [pc EXCEPT ![c] = "compute"]
    /\ UNCHANGED <<data, columns, loaded, tieOrder, call>>

\* app.py:21-24, streamlit_app.py:53-56
Compute(c) ==
    /\ pc[c] = "compute"
    /\ data' = AssignSimilarity(data, columns, frame[c].selected_votes, frame[c].selected_playtime)
    /\ columns' = WithSimilarityColumn(columns)
    /\ pc' = [pc EXCEPT ![c] = "filter"]
    /\ UNCHANGED <<loaded, tieOrder, call, frame>>

\* app.py:27, streamlit_app.py:59
Filter(c) ==
    /\ pc[c] = "filter"
    /\ frame' = [frame EXCEPT ![c].recommendations = Excluding(data, frame[c].selected_game),
                              ![c].columns = columns]
    /\ pc' = [pc EXCEPT ![c] = "sort"]
    /\ UNCHANGED <<data, columns, loaded, tieOrder, call>>

\* app.py:30-31, streamlit_app.py:60-63
SortHead(c) ==
    /\ pc[c] = "sort"
    /\ frame' = [frame EXCEPT ![c].result =
                    [columns |-> frame[c].columns,
                     rows |-> head(SortValues(frame[c].recommendations, tieOrder), frame[c].top_n)]]
    /\ pc' = [pc EXCEPT ![c] = "done"]
    /\ UNCHANGED <<data, columns, loaded, tieOrder, call>>

\* The caller has the return value; its locals are gone and it may call again.
Return(c) ==
    /\ pc[c] = "done"
    /\ pc' = [pc EXCEPT ![c] = "idle"]
    /\ frame' = [frame EXCEPT ![c] = BlankFrame]
    /\ UNCHANGED <<data, columns, loaded, tieOrder, call>>

NextConc ==
    \E c \in Callers :
        \/ \E g \in RefNames, n \in TopNs : Lookup(c, g, n)
        \/ Compute(c)
        \/ Filter(c)
        \/ SortHead(c)
        \/ Return(c)

SpecConc == Init /\ [][NextConc]_vars

\* ================================================================ properties
\* What the formulas below read off the last completed call.  Attributes are
\* taken from `loaded`, distances are recomputed from the attributes.
Called == call # NoCall

RefIdx == {i \in DOMAIN loaded : loaded[i].game = call.selected_game}

Found == RefIdx # {}

FirstRef == loaded[CHOOSE i \in RefIdx : \A j \in RefIdx : i <= j]

SqDist(r, s) ==
    (r.votes_up_count - s.votes_up_count) * (r.votes_up_count - s.votes_up_count)
    + (r.total_playtime - s.total_playtime) * (r.total_playtime - s.total_playtime)

EligibleIdx == {i \in DOMAIN loaded : loaded[i].game # call.selected_game}

Returned == call.result.rows

ReturnedIdx == {Returned[k].index + 1 : k \in DOMAIN Returned}

LeftOutIdx == EligibleIdx \ ReturnedIdx

\* C1: for a reference in the catalog and a positive top_n the result is made of
\* min(top_n, eligible) eligible items, and no eligible item left out is
\* strictly closer to the reference than an item that was returned.
TopNClosest ==
    (Called /\ Found) =>
        /\ Len(Returned) = Min(call.top_n, Cardinality(EligibleIdx))
        /\ ReturnedIdx \subseteq EligibleIdx
        /\ \A i \in LeftOutIdx : \A k \in DOMAIN Returned :
              ~ (SqDist(loaded[i], FirstRef) < Returned[k].similarity)

TopNClosestWitness ==
    /\ Called /\ Found
    /\ Returned # <<>>
    /\ \E i \in LeftOutIdx : \E k \in DOMAIN Returned :
          SqDist(loaded[i], FirstRef) > Returned[k].similarity

\* C2: a reference name that no catalog item carries yields the empty frame,
\* and nothing is raised (the empty catalog included).
AbsentReferenceEmpty ==
    (Called /\ ~ Found) => call.result = EmptyFrame

AbsentReferenceWitness ==
    /\ Called /\ ~ Found
    /\ loaded # <<>>
    /\ call.result.rows = <<>>

\* C3: no returned item carries the reference name, whichever of the items
\* that share the name was matched.
ReferenceNameExcluded ==
    Called => \A k \in DOMAIN Returned : Returned[k].game # call.selected_game

ReferenceNameExcludedWitness ==
    /\ Called
    /\ Cardinality(RefIdx) >= 2
    /\ Returned # <<>>

\* C4: the catalog passed in is the same after the call as before it.
NoSideEffects ==
    Called => (data = call.before /\ columns = call.before_columns)

\* C5: under every interleaving, a finished call returns what it returns when
\* it runs alone on the loaded catalog.
ConcurrentSameAsAlone ==
    \A c \in Callers :
        (/\ pc[c] = "done"
         /\ pc[Other(c)] # "idle"
         /\ frame[Other(c)].selected_game # frame[c].selected_game) =>
            frame[c].result =
                recommend_games(frame[c].selected_game, loaded, BaseColumns,
                                frame[c].top_n, tieOrder).result

\* C6: rows with equal distance come back in catalog order, and when a tie
\* straddles the cut the row earlier in the catalog is the one returned.
TieStable ==
    (Called /\ Found) =>
        /\ \A j, k \in DOMAIN Returned :
              (j < k /\ Returned[j].similarity = Returned[k].similarity)
                  => Returned[j].index < Returned[k].index
        /\ \A i \in LeftOutIdx : \A k \in DOMAIN Returned :
              SqDist(loaded[i], FirstRef) = Returned[k].similarity
                  => Returned[k].index < i - 1

\* C7: the result has at most min(top_n, eligible) rows; when top_n exceeds
\* the number of eligible items every eligible item is returned exactly once.
ResultLengthBounded ==
    (Called /\ Found) =>
        /\ Len(Returned) <= Min(call.top_n, Cardinality(EligibleIdx))
        /\ call.top_n > Cardinality(EligibleIdx) =>
              /\ ReturnedIdx = EligibleIdx
              /\ Len(Returned) = Cardinality(EligibleIdx)
              /\ \A k \in DOMAIN Returned :
                    /\ Returned[k].game = loaded[Returned[k].index + 1].game
                    /\ Returned[k].votes_up_count = loaded[Returned[k].index + 1].votes_up_count
                    /\ Returned[k].total_playtime = loaded[Returned[k].index + 1].total_playtime

ResultLengthWitness ==
    /\ Called /\ Found
    /\ Cardinality(EligibleIdx) >= 1
    /\ call.top_n > Cardinality(EligibleIdx)
    /\ Len(Returned) = Cardinality(EligibleIdx)

\* C8: the distances attached to the returned rows never decrease.
MonotonicOrdering ==
    Called => \A k \in DOMAIN Returned :
                 k + 1 \in DOMAIN Returned => Returned[k].similarity <= Returned[k + 1].similarity

MonotonicOrderingWitness ==
    /\ Called
    /\ Len(Returned) >= 2
    /\ Returned[1].similarity < Returned[2].similarity
    /\ Returned[1].index > Returned[2].index

\* C9: whatever calls came before it, a call returns what the same call returns
\* on the catalog as loaded; so two calls with the same catalog, reference and
\* top_n return the same items, in the same order, with the same distances.
Idempotent ==
    Called =>
        call.result =
            recommend_games(call.selected_game, loaded, BaseColumns, call.top_n, tieOrder).result

\* the call ran on a catalog whose similarity column an earlier call with
\* another reference had filled
IdempotentWitness ==
    /\ Called /\ Found
    /\ HasColumn(call.before_columns, "similarity")
    /\ call.before # data
    /\ Len(Returned) >= 2

\* C10: the distance attached to a returned row is the one to the first
\* catalog row carrying the reference name.
FirstMatchDistance ==
    (Called /\ Found) =>
        \A k \in DOMAIN Returned :
            Returned[k].similarity = SqDist(loaded[Returned[k].index + 1], FirstRef)

FirstMatchWitness ==
    /\ Called
    /\ \E i, j \in RefIdx :
          /\ i < j
          /\ \E k \in DOMAIN Returned :
                /\ SqDist(loaded[Returned[k].index + 1], loaded[i])
                      # SqDist(loaded[Returned[k].index + 1], loaded[j])
                /\ Returned[k].similarity = SqDist(loaded[Returned[k].index + 1], loaded[i])

====
